---- MODULE Spec2Model ----
(***************************************************************************)
(* A model of sdl-gravity-square.cc: the SDL start-up, the frame loop of   *)
(* main (poll events, draw_squares, update_squares, SDL_Delay), the reset  *)
(* on the space key and the per-frame physics of one Square.               *)
(*                                                                         *)
(* Numbers.  The program computes in double.  Every constant it uses is a  *)
(* decimal with at most three fractional digits (0.5, 0.9, 0.95, 0.995),   *)
(* so every value it computes is a finite decimal.  The model computes     *)
(* these decimals exactly: a number is a record [i, f] standing for        *)
(*     i + f[1]/1000 + f[2]/1000^2 + ...                                   *)
(* with i an integer (the floor) and f a sequence of base-1000 digits      *)
(* without a trailing 0.  Rounding of the double product is not modelled.  *)
(***************************************************************************)
EXTENDS Integers, Sequences, FiniteSets, TLC

(***************************************************************************)
(* Exact decimal arithmetic (the double operators +, *, <=, >=, unary -),   *)
(* in base 1000.                                                           *)
(***************************************************************************)
RECURSIVE Trim(_)
Trim(f) ==
    IF f = <<>> THEN <<>>
    ELSE IF f[Len(f)] = 0 THEN Trim(SubSeq(f, 1, Len(f) - 1))
    ELSE f

Pad(f, n) == f \o [j \in 1..(n - Len(f)) |-> 0]

Dec(i, f) == [i |-> i, f |-> Trim(f)]

\* An integer as a number (static_cast<double>(int), an int literal).
Int2Dec(n) == [i |-> n, f |-> <<>>]

\* m thousandths as a number: Milli(500) is 0.5.
Milli(m) == Dec(m \div 1000, <<m % 1000>>)

Zero == Int2Dec(0)

\* Digit-wise sum of two digit sequences of one length, from the last digit
\* to the first: t is the sum at digit j + 1 with the carry into it, acc the
\* digits after it.  <<carry, digits>> results.
RECURSIVE AddDigits(_, _, _, _, _)
AddDigits(a, b, j, t, acc) ==
    IF j = 0 THEN <<t \div 1000, <<t % 1000>> \o acc>>
    ELSE AddDigits(a, b, j - 1, a[j] + b[j] + (t \div 1000),
                   <<t % 1000>> \o acc)

FracAdd(a, b) ==
    IF a = <<>> THEN <<0, <<>>>>
    ELSE AddDigits(a, b, Len(a) - 1, a[Len(a)] + b[Len(a)], <<>>)

\* x + y
DAdd(x, y) ==
    LET n == IF Len(x.f) > Len(y.f) THEN Len(x.f) ELSE Len(y.f)
        r == FracAdd(Pad(x.f, n), Pad(y.f, n))
    IN  Dec(x.i + y.i + r[1], r[2])

\* Digit sequence times a natural k < 1000, from the last digit to the
\* first, as AddDigits.  <<carry, digits>> results.
RECURSIVE MulDigits(_, _, _, _, _)
MulDigits(a, k, j, t, acc) ==
    IF j = 0 THEN <<t \div 1000, <<t % 1000>> \o acc>>
    ELSE MulDigits(a, k, j - 1, a[j] * k + (t \div 1000), <<t % 1000>> \o acc)

FracMul(a, k) ==
    IF a = <<>> THEN <<0, <<>>>>
    ELSE MulDigits(a, k, Len(a) - 1, a[Len(a)] * k, <<>>)

\* -x
DNeg(x) ==
    IF x.f = <<>> THEN Int2Dec(-x.i)
    ELSE LET n == Len(x.f)
         IN  [i |-> -x.i - 1,
              f |-> <<>> \o [j \in 1..n |-> IF j = n THEN 1000 - x.f[j]
                                                     ELSE 999 - x.f[j]]]

\* x * (k / 1000) for a natural k < 1000
DMulNat(x, k) ==
    LET r == FracMul(x.f, k)
        t == x.i * k + r[1]
    IN  Dec(t \div 1000, <<t % 1000>> \o r[2])

\* x * (m / 1000) for an integer m, -1000 < m < 1000
DMul(x, m) == IF m < 0 THEN DNeg(DMulNat(x, -m)) ELSE DMulNat(x, m)

\* Lexicographic <= on digit sequences of one length.
RECURSIVE FracLe(_, _)
FracLe(a, b) ==
    IF a = <<>> THEN TRUE
    ELSE IF Head(a) # Head(b) THEN Head(a) < Head(b)
    ELSE FracLe(Tail(a), Tail(b))

\* x <= y
DLe(x, y) ==
    LET n == IF Len(x.f) > Len(y.f) THEN Len(x.f) ELSE Len(y.f)
    IN  \/ x.i < y.i
        \/ x.i = y.i /\ FracLe(Pad(x.f, n), Pad(y.f, n))

\* x >= y, x > y
DGe(x, y) == DLe(y, x)
DGt(x, y) == ~DLe(x, y)

\* static_cast<int>(x): truncation toward zero
ToInt(x) == IF x.i < 0 /\ x.f # <<>> THEN x.i + 1 ELSE x.i


(***************************************************************************)
(* Vec2, Color, Square, World.                                             *)
(***************************************************************************)
Vec2(x_val, y_val) == [x |-> x_val, y |-> y_val]

\* Color's default member initialisers: opaque white.
DefaultColor == [red |-> 255, green |-> 255, blue |-> 255, alpha |-> 255]

\* Square(Vec2 size, Vec2 pos, Vec2 v); m_color keeps its default.
Square(size, pos, v) ==
    [size |-> size, position |-> pos, velocity |-> v, color |-> DefaultColor]

\* setPosX that loses the assignment.
setPosX_Lost(sq, x) == sq

setPosX(sq, x) == [sq EXCEPT !.position.x = x]
setPosY(sq, y) == [sq EXCEPT !.position.y = y]
setVelocity(sq, velocity) == [sq EXCEPT !.velocity = velocity]
setColor(sq, color) == [sq EXCEPT !.color = color]

\* The factors are in thousandths: gravity 0.5 is 500.
applyGravity(sq, gravity) ==
    [sq EXCEPT !.velocity.y = DAdd(@, Milli(gravity))]

applyAirResistance(sq, air_resistance) ==
    [sq EXCEPT !.velocity.x = DMul(@, air_resistance)]

\* dampX that scales the velocity without turning it back.
dampX_NoFlip(sq, damping) == [sq EXCEPT !.velocity.x = DMul(@, damping)]

dampX(sq, damping) == [sq EXCEPT !.velocity.x = DMul(@, -damping)]

dampY(sq, damping) == [sq EXCEPT !.velocity.y = DMul(@, -damping)]

updatePosition(sq) ==
    [sq EXCEPT !.position.x = DAdd(@, sq.velocity.x),
               !.position.y = DAdd(@, sq.velocity.y)]

\* World's default member initialisers, in thousandths.
gWorld == [gravity |-> 500, damping |-> 900, air_resistance |-> 995]

gScreenWidth == 640
gScreenHeight == 480
gNumSquares == 4

\* The literals of update_squares, in thousandths: "> 0.5" and "* 0.95".
BounceThreshold == 500
GroundFriction == 950

(***************************************************************************)
(* The random source.  get_random_int(low, high) returns any integer of    *)
(* low..high; the model draws it from a sample of that range.              *)
(***************************************************************************)
VelocityLow == -20
VelocityHigh == 20

\* The values get_random_int(-20, 20) is let to return.
VelocityDraws == {VelocityLow, VelocityHigh}

\* The values get_random_int(0, 255) is let to return.
ChannelDraws == {0}

\* get_random_velocity: the pairs it can return.  The sample keeps the two
\* components alike, which is enough to reach each of the four borders.
RandomVelocities ==
    {Vec2(Int2Dec(v), Int2Dec(v)) : v \in VelocityDraws}

\* get_random_color: red, green and blue are drawn, alpha keeps its default.
RandomColors ==
    {[DefaultColor EXCEPT !.red = r, !.green = g, !.blue = b] :
        r \in ChannelDraws, g \in ChannelDraws, b \in ChannelDraws}

\* get_random_int calls made by one get_random_velocity, one get_random_color.
VelocityInts == 2
ColorInts == 3

(***************************************************************************)
(* update_squares: one iteration of its loop, for one Square.              *)
(***************************************************************************)
\* The loop body moving the Square before it changes the velocity.
Integrate_PositionFirst(sq) ==
    applyAirResistance(applyGravity(updatePosition(sq), gWorld.gravity),
                       gWorld.air_resistance)

\* Lines 276-281: gravity, air resistance, then the position.
Integrate(sq) ==
    updatePosition(
        applyAirResistance(applyGravity(sq, gWorld.gravity),
                           gWorld.air_resistance))

\* gScreenWidth - square->size().x and gScreenHeight - square->size().y
RightLimit(sq) == DAdd(Int2Dec(gScreenWidth), DNeg(sq.size.x))
FloorLimit(sq) == DAdd(Int2Dec(gScreenHeight), DNeg(sq.size.y))

\* Lines 284-288, on the Square as it is after Integrate.
is_on_right_wall(sq) == DGe(sq.position.x, RightLimit(sq))
is_on_left_wall(sq) == DLe(sq.position.x, Zero)
is_on_wall(sq) == is_on_right_wall(sq) \/ is_on_left_wall(sq)
is_on_floor(sq) == DGe(sq.position.y, FloorLimit(sq))
is_on_ceiling(sq) == DLe(sq.position.y, Zero)

\* The test of line 307 with >= for >.
MovingFastEnough_OrEqual(sq) == DGe(sq.velocity.y, Milli(BounceThreshold))

\* Line 307: square->velocity().y > 0.5
MovingFastEnough(sq) == DGt(sq.velocity.y, Milli(BounceThreshold))

\* Lines 290-302.  m is the Square after Integrate (the flags are computed
\* once, from it), sq the Square being corrected, color the color drawn.
WallStep(m, sq, color) ==
    IF is_on_wall(m)
    THEN LET l == IF is_on_left_wall(m) THEN setPosX(sq, Zero) ELSE sq
             r == IF is_on_right_wall(m) THEN setPosX(l, RightLimit(l)) ELSE l
         IN  setColor(dampX(r, gWorld.damping), color)
    ELSE sq

\* The floor step whose friction branch keeps velocity.y.
FloorStep_KeepsFalling(m, sq, color) ==
    IF is_on_floor(m)
    THEN LET c == setPosY(sq, FloorLimit(sq))
         IN  IF MovingFastEnough(c)
             THEN setColor(dampY(c, gWorld.damping), color)
             ELSE setVelocity(c, Vec2(DMul(c.velocity.x, GroundFriction),
                                      c.velocity.y))
    ELSE sq

\* Lines 304-315.
FloorStep(m, sq, color) ==
    IF is_on_floor(m)
    THEN LET c == setPosY(sq, FloorLimit(sq))
         IN  IF MovingFastEnough(c)
             THEN setColor(dampY(c, gWorld.damping), color)
             ELSE setVelocity(c, Vec2(DMul(c.velocity.x, GroundFriction), Zero))
    ELSE sq

\* Lines 316-322.
CeilingStep(m, sq, color) ==
    IF is_on_ceiling(m)
    THEN setColor(dampY(setPosY(sq, Zero), gWorld.damping), color)
    ELSE sq

\* Which of the three get_random_color calls the iteration makes; m is the
\* Square after Integrate.
WallDraws(m) == IF is_on_wall(m) THEN 1 ELSE 0
FloorDraws(m) == IF is_on_floor(m) /\ MovingFastEnough(m) THEN 1 ELSE 0
CeilingDraws(m) == IF is_on_ceiling(m) THEN 1 ELSE 0
ColorDraws(sq) ==
    LET m == Integrate(sq)
    IN  WallDraws(m) + FloorDraws(m) + CeilingDraws(m)

\* The loop body, lines 275-322; colors are the colors get_random_color
\* returns to it, in the order of the calls (ColorDraws(sq) of them).
update_square(sq, colors) ==
    LET m  == Integrate(sq)
        at(k) == IF k \in DOMAIN colors THEN colors[k] ELSE sq.color
        w  == WallStep(m, m, at(1))
        f  == FloorStep(m, w, at(WallDraws(m) + 1))
    IN  CeilingStep(m, f, at(WallDraws(m) + FloorDraws(m) + 1))

\* for (auto square : gSquares), from index k on; h is the heap.
RECURSIVE UpdateFrom(_, _, _, _)
UpdateFrom(h, squares, k, colors) ==
    IF k > Len(squares) THEN h
    ELSE LET p == squares[k]
             n == ColorDraws(h[p])
         IN  UpdateFrom([h EXCEPT ![p] = update_square(h[p], SubSeq(colors, 1, n))],
                        squares, k + 1, SubSeq(colors, n + 1, Len(colors)))

update_squares(h, squares, colors) == UpdateFrom(h, squares, 1, colors)

\* The get_random_color calls of one update_squares.
RECURSIVE DrawsFrom(_, _, _)
DrawsFrom(h, squares, k) ==
    IF k > Len(squares) THEN 0
    ELSE ColorDraws(h[squares[k]]) + DrawsFrom(h, squares, k + 1)

(***************************************************************************)
(* The program state.                                                      *)
(***************************************************************************)
NULL == "nullptr"
Handle == "handle"
Destroyed == "destroyed"

\* What SDL_PollEvent can hand to the loop of main.
Events == {"SDL_QUIT", "SDLK_SPACE", "SDLK_other", "other"}

MaxFrames == 17
MaxEvents == 1
MaxResets == 1
MaxSteps == 3

VARIABLES
    pc,           \* where main is
    exitCode,     \* the exit status of the process, -1 while it runs
    gWindow,      \* SDL_Window*: NULL or a window
    gRenderer,    \* SDL_Renderer*: NULL or a renderer
    quit,         \* main's quit flag
    gSquares,     \* std::vector<Square*>: a sequence of pointers
    heap,         \* the live Square objects, by pointer
    nextId,       \* the next object new Square creates (objects are numbered)
    draws,        \* the position of the generator: get_random_int calls made
    drawn,        \* the SDL_Rects the last draw_squares handed to SDL
    frame,        \* iterations of the frame loop entered
    polled,       \* events taken by the event loop of the current frame
    resetPolled   \* whether the event loop of the current frame reset

vars == <<pc, exitCode, gWindow, gRenderer, quit, gSquares, heap, nextId,
          draws, drawn, frame, polled, resetPolled>>

Range(s) == {s[k] : k \in DOMAIN s}

\* {gScreenWidth / 2, gScreenHeight / 2}: integer division, then double.
Center == Vec2(Int2Dec(gScreenWidth \div 2), Int2Dec(gScreenHeight \div 2))

\* The size of a default-constructed Square, m_size {10.0, 10.0}.
SquareSize_Default == Vec2(Int2Dec(10), Int2Dec(10))

\* {100.0, 100.0}
SquareSize == Vec2(Int2Dec(100), Int2Dec(100))

\* The globals before main runs.
Init ==
    /\ pc = "init"
    /\ exitCode = -1
    /\ gWindow = NULL
    /\ gRenderer = NULL
    /\ quit = FALSE
    /\ gSquares = <<>>
    /\ heap = <<>>
    /\ nextId = 1
    /\ draws = 0
    /\ drawn = <<>>
    /\ frame = 0
    /\ polled = 0
    /\ resetPolled = FALSE

(***************************************************************************)
(* init_squares and reinit_squares.                                        *)
(***************************************************************************)
\* init_squares: gNumSquares times, new Square at the centre with a drawn
\* velocity, setColor with a drawn color, push_back.  first is the number
\* of the first object created; <<heap, vector>> results.
NewSquares(h, squares, first, vs, cs) ==
    LET ids == first .. (first + gNumSquares - 1)
    IN  <<[p \in (DOMAIN h) \cup ids |->
              IF p \in ids
              THEN setColor(Square(SquareSize, Center, vs[p - first + 1]),
                            cs[p - first + 1])
              ELSE h[p]],
          squares \o [k \in 1..gNumSquares |-> first + k - 1]>>

\* reinit_squares without its delete loop.
DeleteAll_Leak(h, squares) == h

\* The delete loop of reinit_squares: every object the vector points to.
DeleteAll(h, squares) ==
    [p \in (DOMAIN h) \ Range(squares) |-> h[p]]

\* gSquares.clear()
Cleared(squares) == <<>>

\* reinit_squares: delete, clear, init_squares.
reinit_squares(h, squares, first, vs, cs) ==
    NewSquares(DeleteAll(h, squares), Cleared(squares), first, vs, cs)

(***************************************************************************)
(* main.                                                                   *)
(***************************************************************************)
\* The iteration with update_squares before draw_squares.
FrameOrder_UpdateFirst == <<"poll", "update", "draw", "delay", "loop">>

\* The order of the statements of one iteration of while (!quit).
FrameOrder == <<"poll", "draw", "update", "delay", "loop">>

After(phase) ==
    LET k == CHOOSE j \in DOMAIN FrameOrder : FrameOrder[j] = phase
    IN  FrameOrder[k + 1]

\* The outcomes of init() that main tells apart: what init returns when
\* SDL_Init succeeded and the window and the renderer are w and r.
InitResult(w, r) == 1

\* init(): SDL_Init fails, init returns 0 and main returns 1.
InitSDLFails ==
    /\ pc = "init"
    /\ pc' = "done"
    /\ exitCode' = 1
    /\ UNCHANGED <<gWindow, gRenderer, quit, gSquares, heap, nextId, draws,
                   drawn, frame, polled, resetPolled>>

\* init(): SDL_Init succeeds; SDL_CreateWindow and SDL_CreateRenderer each
\* return an object or NULL (no renderer is made for a NULL window).
InitSDL ==
    /\ pc = "init"
    /\ \E w \in {NULL, Handle} :
       \E r \in (IF w = NULL THEN {NULL} ELSE {NULL, Handle}) :
          /\ gWindow' = w
          /\ gRenderer' = r
          /\ IF InitResult(w, r) = 0
             THEN pc' = "done" /\ exitCode' = 1
             ELSE pc' = "init_squares" /\ exitCode' = exitCode
    /\ UNCHANGED <<quit, gSquares, heap, nextId, draws, drawn, frame,
                   polled, resetPolled>>

\* Line 357: init_squares().
InitSquares ==
    /\ pc = "init_squares"
    /\ \E vs \in [1..gNumSquares -> RandomVelocities] :
       \E cs \in [1..gNumSquares -> RandomColors] :
          LET r == NewSquares(heap, gSquares, nextId, vs, cs)
          IN  heap' = r[1] /\ gSquares' = r[2]
    /\ nextId' = nextId + gNumSquares
    /\ draws' = draws + gNumSquares * (VelocityInts + ColorInts)
    /\ pc' = "loop"
    /\ UNCHANGED <<exitCode, gWindow, gRenderer, quit, drawn, frame, polled,
                   resetPolled>>

\* while (true)
LoopCondition_Always(q) == TRUE

\* while (!quit)
LoopCondition(q) == ~q

\* The loop test holds: the next iteration is entered.
LoopEnter ==
    /\ pc = "loop"
    /\ LoopCondition(quit)
    /\ frame < MaxFrames
    /\ frame' = frame + 1
    /\ polled' = 0
    /\ resetPolled' = FALSE
    /\ pc' = FrameOrder[1]
    /\ UNCHANGED <<exitCode, gWindow, gRenderer, quit, gSquares, heap, nextId,
                   draws, drawn>>

\* The loop test fails.
LoopExit ==
    /\ pc = "loop"
    /\ ~LoopCondition(quit)
    /\ pc' = "close"
    /\ UNCHANGED <<exitCode, gWindow, gRenderer, quit, gSquares, heap, nextId,
                   draws, drawn, frame, polled, resetPolled>>

\* SDL_PollEvent returns 1 with e.type == SDL_QUIT.
PollQuit ==
    /\ pc = "poll"
    /\ polled < MaxEvents
    /\ polled' = polled + 1
    /\ quit' = TRUE
    /\ UNCHANGED <<pc, exitCode, gWindow, gRenderer, gSquares, heap, nextId,
                   draws, drawn, frame, resetPolled>>

\* SDL_PollEvent returns 1 with SDL_KEYDOWN of SDLK_SPACE: reinit_squares().
PollSpace ==
    /\ pc = "poll"
    /\ polled < MaxEvents
    /\ nextId - 1 < gNumSquares * (1 + MaxResets)
    /\ polled' = polled + 1
    /\ \E vs \in [1..gNumSquares -> RandomVelocities] :
       \E cs \in [1..gNumSquares -> RandomColors] :
          LET r == reinit_squares(heap, gSquares, nextId, vs, cs)
          IN  heap' = r[1] /\ gSquares' = r[2]
    /\ nextId' = nextId + gNumSquares
    /\ draws' = draws + gNumSquares * (VelocityInts + ColorInts)
    /\ resetPolled' = TRUE
    /\ UNCHANGED <<pc, exitCode, gWindow, gRenderer, quit, drawn, frame>>

\* SDL_PollEvent returns 1 with another key, or with another event.
PollIgnored ==
    /\ pc = "poll"
    /\ polled < MaxEvents
    /\ \E e \in Events \ {"SDL_QUIT", "SDLK_SPACE"} : polled' = polled + 1
    /\ UNCHANGED <<pc, exitCode, gWindow, gRenderer, quit, gSquares, heap,
                   nextId, draws, drawn, frame, resetPolled>>

\* SDL_PollEvent returns 0: the event loop ends.
PollEmpty ==
    /\ pc = "poll"
    /\ pc' = After("poll")
    /\ UNCHANGED <<exitCode, gWindow, gRenderer, quit, gSquares, heap, nextId,
                   draws, drawn, frame, polled, resetPolled>>

\* The SDL_Rect of draw_squares for one Square, with the color set for it.
RectOf(sq) ==
    [x |-> ToInt(sq.position.x), y |-> ToInt(sq.position.y),
     w |-> ToInt(sq.size.x), h |-> ToInt(sq.size.y), color |-> sq.color]

\* draw_squares: clear, one SDL_RenderFillRect per Square in vector order,
\* present.  The rectangles are handed over whether or not SDL can draw.
draw_squares(h, squares) == [k \in DOMAIN squares |-> RectOf(h[squares[k]])]

DrawSquares ==
    /\ pc = "draw"
    /\ drawn' = draw_squares(heap, gSquares)
    /\ pc' = After("draw")
    /\ UNCHANGED <<exitCode, gWindow, gRenderer, quit, gSquares, heap, nextId,
                   draws, frame, polled, resetPolled>>

UpdateSquares ==
    /\ pc = "update"
    /\ \E colors \in [1..DrawsFrom(heap, gSquares, 1) -> RandomColors] :
          /\ heap' = update_squares(heap, gSquares, colors)
          /\ draws' = draws + Len(colors) * ColorInts
    /\ pc' = After("update")
    /\ UNCHANGED <<exitCode, gWindow, gRenderer, quit, gSquares, nextId,
                   drawn, frame, polled, resetPolled>>

\* SDL_Delay(15)
Delay ==
    /\ pc = "delay"
    /\ pc' = After("delay")
    /\ UNCHANGED <<exitCode, gWindow, gRenderer, quit, gSquares, heap, nextId,
                   draws, drawn, frame, polled, resetPolled>>

\* close() and return 0.  The Squares of gSquares are not deleted.
Close ==
    /\ pc = "close"
    /\ gRenderer' = Destroyed
    /\ gWindow' = Destroyed
    /\ exitCode' = 0
    /\ pc' = "done"
    /\ UNCHANGED <<quit, gSquares, heap, nextId, draws, drawn, frame,
                   polled, resetPolled>>

Next ==
    \/ InitSDLFails
    \/ InitSDL
    \/ InitSquares
    \/ LoopEnter
    \/ LoopExit
    \/ PollQuit
    \/ PollSpace
    \/ PollIgnored
    \/ PollEmpty
    \/ DrawSquares
    \/ UpdateSquares
    \/ Delay
    \/ Close

Spec == Init /\ [][Next]_vars

(***************************************************************************)
(* update_squares alone, on one Square drawn from a sample of the states a *)
(* Square can be in between two frames: inside the screen, and moving away *)
(* from a border it touches (a bounce has reversed it) or not at all.      *)
(***************************************************************************)
\* Sample coordinates, and sample velocity components in thousandths.
SampleX == {0, 1, 270, 538, 540}
SampleY == {0, 1, 200, 379, 380}
SampleVX == {-20000, -5000, 0, 5000, 20000}
SampleVY == {-20000, -500, 0, 1000, 20000}

SampleSquares ==
    {[size |-> SquareSize,
      position |-> Vec2(Int2Dec(x), Int2Dec(y)),
      velocity |-> Vec2(Milli(vx), Milli(vy)),
      color |-> DefaultColor] :
        x \in SampleX, y \in SampleY, vx \in SampleVX, vy \in SampleVY}

BetweenFrames(sq) ==
    /\ sq.position.x = Zero => DGe(sq.velocity.x, Zero)
    /\ sq.position.x = RightLimit(sq) => DLe(sq.velocity.x, Zero)
    /\ sq.position.y = Zero => DGe(sq.velocity.y, Zero)
    /\ sq.position.y = FloorLimit(sq) => DLe(sq.velocity.y, Zero)

UnitInit ==
    /\ pc = "unit"
    /\ exitCode = -1
    /\ gWindow = Handle
    /\ gRenderer = Handle
    /\ quit = FALSE
    /\ gSquares = <<1>>
    /\ \E sq \in {q \in SampleSquares : BetweenFrames(q)} : heap = <<sq>>
    /\ nextId = 2
    /\ draws = 0
    /\ drawn = <<>>
    /\ frame = 0
    /\ polled = 0
    /\ resetPolled = FALSE

\* One call of update_squares.
UnitUpdate ==
    /\ pc = "unit"
    /\ frame < MaxSteps
    /\ frame' = frame + 1
    /\ \E colors \in [1..DrawsFrom(heap, gSquares, 1) -> RandomColors] :
          /\ heap' = update_squares(heap, gSquares, colors)
          /\ draws' = draws + Len(colors) * ColorInts
    /\ UNCHANGED <<pc, exitCode, gWindow, gRenderer, quit, gSquares, nextId,
                   drawn, polled, resetPolled>>

UnitSpec == UnitInit /\ [][UnitUpdate]_vars

(***************************************************************************)
(* What the properties below say of one update, written with the numbers   *)
(* of the specification: b is a Square before update_squares.              *)
(***************************************************************************)
\* x < y
DLt(x, y) == ~DLe(y, x)

\* velocity.x after air resistance, velocity.y after gravity
DraggedVX(b) == DMul(b.velocity.x, 995)
FallenVY(b) == DAdd(b.velocity.y, Milli(500))

\* the position after integration, before any correction
PostX(b) == DAdd(b.position.x, DraggedVX(b))
PostY(b) == DAdd(b.position.y, FallenVY(b))

\* 640 - 100 and 480 - 100
RightX == Int2Dec(540)
FloorY == Int2Dec(380)

HitsRight(b) == DGe(PostX(b), RightX)
HitsLeft(b) == DLe(PostX(b), Zero)
HitsWall(b) == HitsRight(b) \/ HitsLeft(b)
HitsFloor(b) == DGe(PostY(b), FloorY)
Rubs(b) == HitsFloor(b) /\ ~DGt(FallenVY(b), Milli(500))

\* A step that is one update_squares.
IsUpdate ==
    \/ pc = "unit" /\ frame' # frame
    \/ pc = "update" /\ pc' # pc

Is100x100(b) == b.size = Vec2(Int2Dec(100), Int2Dec(100))

\* C6: a Square whose position after integration is strictly inside the
\* bounds (0 < x < 640 - size.x, 0 < y < 480 - size.y) gets, by one update,
\* velocity (0.995 * vx, vy + 0.5) and position p + that velocity, and
\* nothing else of it changes; no color is drawn.  From (270,200) at rest
\* it gets velocity (0, 0.5) and position (270, 200.5).
C6_FreeFlight ==
    [][\A p \in DOMAIN heap :
          LET b == heap[p]
              inside ==
                  /\ DLt(Zero, PostX(b))
                  /\ DLt(PostX(b), DAdd(Int2Dec(640), DNeg(b.size.x)))
                  /\ DLt(Zero, PostY(b))
                  /\ DLt(PostY(b), DAdd(Int2Dec(480), DNeg(b.size.y)))
          IN  /\ (IsUpdate /\ inside) =>
                    /\ heap'[p].velocity = Vec2(DraggedVX(b), FallenVY(b))
                    /\ heap'[p].position = Vec2(PostX(b), PostY(b))
                    /\ heap'[p].color = b.color
                    /\ heap'[p].size = b.size
                    /\ draws' = draws
              /\ (/\ IsUpdate
                  /\ b.position = Vec2(Int2Dec(270), Int2Dec(200))
                  /\ b.velocity = Vec2(Zero, Zero)) =>
                    /\ heap'[p].velocity = Vec2(Zero, Milli(500))
                    /\ heap'[p].position = Vec2(Int2Dec(270), Milli(200500))
      ]_vars

\* The Square of the end-to-end scenario, one update after its start.
C6_Witness ==
    /\ pc = "unit"
    /\ frame = 1
    /\ heap[1].position = Vec2(Int2Dec(270), Milli(200500))
    /\ heap[1].velocity = Vec2(Zero, Milli(500))
    /\ draws = 0

\* What C7 and C8 say of the color: a color was drawn and the Square has one.
ColorDrawn(p) ==
    /\ draws' >= draws + 3
    /\ heap'[p].color \in RandomColors

\* C7 as claimed: a 100x100 Square whose position.x after integration is
\* >= 540 or <= 0 has, after the update, position.x exactly 540 or 0,
\* velocity.x = -0.9 * (its velocity.x after air resistance), and a newly
\* drawn color.
C7_AsClaimed ==
    [][\A p \in DOMAIN heap :
          LET b == heap[p]
          IN  (IsUpdate /\ Is100x100(b) /\ HitsWall(b)) =>
                 /\ heap'[p].position.x = IF HitsRight(b) THEN RightX ELSE Zero
                 /\ heap'[p].velocity.x = DMul(DraggedVX(b), -900)
                 /\ ColorDrawn(p)
      ]_vars

\* C7 amended: as claimed, but when the same update also takes the floor's
\* friction branch (the Square is on the floor with velocity.y <= 0.5 after
\* gravity) velocity.x is 0.95 * (-0.9 * the velocity.x after air
\* resistance).
C7_WallBounce ==
    [][\A p \in DOMAIN heap :
          LET b == heap[p]
              bounced == DMul(DraggedVX(b), -900)
          IN  (IsUpdate /\ Is100x100(b) /\ HitsWall(b)) =>
                 /\ heap'[p].position.x = IF HitsRight(b) THEN RightX ELSE Zero
                 /\ heap'[p].velocity.x =
                        IF Rubs(b) THEN DMul(bounced, 950) ELSE bounced
                 /\ ColorDrawn(p)
      ]_vars

\* A Square that has bounced off the right wall in mid-air: it started at
\* (538, 200) with velocity (5, 0).
C7_Witness ==
    /\ pc = "unit"
    /\ frame = 1
    /\ heap[1].position = Vec2(RightX, Milli(200500))
    /\ heap[1].velocity = Vec2(DMul(Milli(4975), -900), Milli(500))
    /\ heap[1].color \in RandomColors
    /\ draws = 3

\* C8: a 100x100 Square whose position.y after integration is >= 380 has,
\* after the update, position.y exactly 380, and (a) if its velocity.y after
\* gravity is > 0.5, velocity.y = -0.9 * that and a newly drawn color;
\* (b) otherwise (velocity.y = 0.5 included) velocity.y = 0 and velocity.x =
\* 0.95 * the velocity.x in effect when the floor step runs (after air
\* resistance and after the wall's damping, if any), and the floor step
\* draws no color: only a wall hit of the same update does.
C8_FloorContact ==
    [][\A p \in DOMAIN heap :
          LET b == heap[p]
              vxAtFloor == IF HitsWall(b) THEN DMul(DraggedVX(b), -900)
                           ELSE DraggedVX(b)
          IN  (IsUpdate /\ Is100x100(b) /\ HitsFloor(b)) =>
                 /\ heap'[p].position.y = FloorY
                 /\ DGt(FallenVY(b), Milli(500)) =>
                       /\ heap'[p].velocity.y = DMul(FallenVY(b), -900)
                       /\ ColorDrawn(p)
                 /\ ~DGt(FallenVY(b), Milli(500)) =>
                       /\ heap'[p].velocity.y = Zero
                       /\ heap'[p].velocity.x = DMul(vxAtFloor, 950)
                       /\ IF HitsWall(b)
                          THEN draws' = draws + 3
                          ELSE draws' = draws /\ heap'[p].color = b.color
      ]_vars

\* A Square that took the friction branch with velocity.y exactly 0.5: it
\* started on the floor at (270, 380) with velocity (5, 0).
C8_Witness ==
    /\ pc = "unit"
    /\ frame = 1
    /\ heap[1].position = Vec2(Milli(274975), FloorY)
    /\ heap[1].velocity = Vec2(DMul(Milli(4975), 950), Zero)
    /\ heap[1].color = DefaultColor
    /\ draws = 0

AtRestOnFloor(b) ==
    /\ b.position.y = DAdd(Int2Dec(480), DNeg(b.size.y))
    /\ b.velocity = Vec2(Zero, Zero)

\* C9: an update leaves a Square at rest on the floor (position.y = 480 -
\* size.y, velocity (0,0)) at the same position with velocity (0,0); so it
\* stays there over any number of updates.
C9_RestIsFixed ==
    [][\A p \in DOMAIN heap :
          (IsUpdate /\ AtRestOnFloor(heap[p])) =>
             /\ heap'[p].position = heap[p].position
             /\ heap'[p].velocity = Vec2(Zero, Zero)
      ]_vars

\* A Square at rest on the floor after several updates.
C9_Witness ==
    /\ pc = "unit"
    /\ frame = MaxSteps
    /\ AtRestOnFloor(heap[1])
    /\ heap[1].position.x = Int2Dec(270)

(***************************************************************************)
(* Properties of the whole program.                                        *)
(***************************************************************************)
Bodies == {heap[p] : p \in Range(gSquares)}

\* A step that is one reinit_squares (the space key).
IsReset == pc = "poll" /\ resetPolled' /\ nextId' # nextId

IsDraw20(v) == v.f = <<>> /\ v.i \in -20..20

\* C1: when reinit_squares completes, whatever the collection was, it holds
\* exactly 4 bodies, each of size (100,100) at (320,240) with velocity
\* components that are integers of [-20,20]; every body that existed before
\* is deleted and none of the 4 is a body that existed before.
C1_Reset ==
    [][IsReset =>
          /\ Len(gSquares') = 4
          /\ Cardinality(Range(gSquares')) = 4
          /\ DOMAIN heap' = Range(gSquares')
          /\ (DOMAIN heap) \cap (DOMAIN heap') = {}
          /\ \A p \in Range(gSquares') :
                /\ heap'[p].size = Vec2(Int2Dec(100), Int2Dec(100))
                /\ heap'[p].position = Vec2(Int2Dec(320), Int2Dec(240))
                /\ IsDraw20(heap'[p].velocity.x)
                /\ IsDraw20(heap'[p].velocity.y)
      ]_vars

\* The collection right after a reset that found bodies that had moved.
C1_Witness ==
    /\ pc = "poll"
    /\ resetPolled
    /\ frame >= 8
    /\ Len(gSquares) = 4
    /\ Range(gSquares) = 5..8
    /\ \A b \in Bodies : b.position = Center

\* C2 as claimed: when creating the window or the renderer has failed, the
\* process is over with status 1, and no body was created, no frame entered,
\* nothing drawn.
C2_AsClaimed ==
    (pc # "init" /\ (gWindow = NULL \/ gRenderer = NULL)) =>
        /\ pc = "done"
        /\ exitCode = 1
        /\ gSquares = <<>>
        /\ frame = 0
        /\ drawn = <<>>

InFrame == pc \in {"poll", "draw", "update", "delay"}

\* C3: the frame loop is left only after a Quit event was polled; the quit
\* flag is set only by polling an event and only the loop test acts on it;
\* once it is set, every step of the program is the next one on the way
\* through the rest of the events (each taken off the queue), the drawing,
\* the update, the delay, the loop test, close and the end with status 0,
\* and no further frame is entered.
C3_RunsUntilQuit ==
    /\ []((pc = "close" \/ (pc = "done" /\ exitCode = 0)) => quit)
    /\ [](quit => (exitCode = -1 \/ (pc = "done" /\ exitCode = 0)))
    /\ [][/\ (quit' /\ ~quit) => (pc = "poll" /\ pc' = "poll")
          /\ quit => quit'
          /\ pc' = "close" => (pc = "loop" /\ quit)
          /\ (quit /\ pc = "poll") =>
                \/ pc' = "poll" /\ polled' = polled + 1
                \/ pc' = "draw"
          /\ (quit /\ pc = "draw") => pc' = "update"
          /\ (quit /\ pc = "update") => pc' = "delay"
          /\ (quit /\ pc = "delay") => pc' = "loop"
          /\ (quit /\ pc = "loop") => pc' = "close"
          /\ quit => frame' = frame
          /\ pc = "close" => (pc' = "done" /\ exitCode' = 0)
         ]_vars

\* The process has ended with status 0 after a Quit polled in a late frame.
C3_Witness ==
    /\ pc = "done"
    /\ exitCode = 0
    /\ quit
    /\ frame >= 3
    /\ drawn # <<>>

AllAtCenter(h, squares) ==
    \A p \in Range(squares) :
        h[p].position = Vec2(Int2Dec(320), Int2Dec(240))

\* C4: in a frame the event loop, the drawing, the update and the delay
\* follow one another in this order; the bodies change only in a reset of
\* the event loop and in the update, the drawing hands over the rectangles
\* of all 4 bodies as they are before the update; so the drawing of a frame
\* whose event loop reset the bodies shows each of them at (320,240).
C4_FrameOrder ==
    /\ [][/\ pc = "poll" => pc' \in {"poll", "draw"}
          /\ pc = "draw" => pc' = "update"
          /\ pc = "update" => pc' = "delay"
          /\ pc = "delay" => pc' = "loop"
          /\ (InFrame /\ heap' # heap) => (IsReset \/ pc = "update")
          /\ drawn' # drawn => pc = "draw"
          /\ pc = "draw" =>
                /\ heap' = heap
                /\ Len(drawn') = 4
                /\ \A k \in 1..4 :
                      /\ drawn'[k].x = ToInt(heap[gSquares[k]].position.x)
                      /\ drawn'[k].y = ToInt(heap[gSquares[k]].position.y)
                      /\ drawn'[k].w = 100
                      /\ drawn'[k].h = 100
          /\ IsReset => AllAtCenter(heap', gSquares')
         ]_vars
    /\ []((resetPolled /\ pc \in {"poll", "draw", "update"}) =>
              AllAtCenter(heap, gSquares))
    /\ []((resetPolled /\ pc = "update") =>
              /\ Len(drawn) = 4
              /\ \A k \in 1..4 : drawn[k].x = 320 /\ drawn[k].y = 240)

\* A frame whose event loop reset bodies that had moved, after its drawing.
C4_Witness ==
    /\ pc = "update"
    /\ resetPolled
    /\ frame >= 8
    /\ Len(drawn) = 4
    /\ \A k \in 1..4 : drawn[k].x = 320 /\ drawn[k].y = 240

\* C5: whenever the bodies are drawn or updated there are exactly 4 of them,
\* each of size (100,100); the update keeps the collection, its objects and
\* their sizes, and only init_squares and the reset change the collection.
C5_FixedCollection ==
    /\ [](pc \in {"draw", "update"} =>
             /\ Len(gSquares) = 4
             /\ Cardinality(Range(gSquares)) = 4
             /\ Range(gSquares) \subseteq DOMAIN heap
             /\ \A b \in Bodies : b.size = Vec2(Int2Dec(100), Int2Dec(100)))
    /\ [][/\ pc = "update" =>
                /\ gSquares' = gSquares
                /\ DOMAIN heap' = DOMAIN heap
                /\ \A p \in DOMAIN heap : heap'[p].size = heap[p].size
          /\ (gSquares' # gSquares \/ DOMAIN heap' # DOMAIN heap) =>
                (IsReset \/ pc = "init_squares")
         ]_vars

\* The bodies of a late frame, after updates that bounced them and a reset.
C5_Witness ==
    /\ pc = "delay"
    /\ frame = MaxFrames
    /\ Range(gSquares) = 5..8
    /\ Len(gSquares) = 4
    /\ \E b \in Bodies : b.position.y = Int2Dec(380)

InBounds(b) ==
    /\ DLe(Zero, b.position.x)
    /\ DLe(b.position.x, Int2Dec(540))
    /\ DLe(Zero, b.position.y)
    /\ DLe(b.position.y, Int2Dec(380))

\* C10: between the steps of main - after init_squares, after a reset,
\* after update_squares - every body is inside the screen, 0 <= position.x
\* <= 540 and 0 <= position.y <= 380, and every rectangle handed to the
\* renderer is within the 640x480 window.
C10_InBounds ==
    /\ \A b \in Bodies : InBounds(b)
    /\ \A k \in DOMAIN drawn :
          /\ 0 <= drawn[k].x /\ drawn[k].x + drawn[k].w <= 640
          /\ 0 <= drawn[k].y /\ drawn[k].y + drawn[k].h <= 480

\* A body the left wall has just stopped and turned back, after others were
\* stopped by the floor and by the right wall.
C10_Witness ==
    /\ pc = "delay"
    /\ \E b \in Bodies : b.position.x = Zero /\ DGt(b.velocity.x, Zero)
    /\ \E b \in Bodies : DLt(b.velocity.x, Zero) /\ DLt(b.velocity.y, Zero)
====
